---- MODULE Spec2Model ----
(***************************************************************************)
(* Model of the AutoColumnSize plugin                                      *)
(* (src/src/plugins/autoColumnSize/autoColumnSize.js): the width cache,    *)
(* the calculation engine, the frame-driven full recalculation and the     *)
(* host hooks.                                                             *)
(***************************************************************************)
EXTENDS Integers, Sequences, FiniteSets, TLC

\* ------------------------------------------------------------------ bounds

\* Largest row count and column count of the grid.
MaxRows == 22
MaxCols == 2
\* Largest number of deferred tasks plus full runs pending at one time.
MaxRuns == 2

\* --------------------------------------------------------------- constants

\* static get CALCULATION_STEP()
CALCULATION_STEP == 19

\* JavaScript's undefined (void 0), for a missing width, argument or result.
Undefined == -1

VARIABLES
  hot,           \* this.hot is set (FALSE once the plugin is destroyed)
  nRows,         \* this.hot.countRows()
  nCols,         \* this.hot.countCols()
  colWidths,     \* the host's user-declared width of each column
  hidden,        \* the table's root element is not displayed
  widths,        \* this.widths, the cached column widths
  ghostColumns,  \* this.ghostTable.columns, the registered columns
  timeouts,      \* deferred tasks (setTimeout 0) not yet run
  runs,          \* full runs waiting for their requested animation frame
  invalidated,   \* columns edited and in no calculateColumnsWidth range since
  op             \* the operation executed last, its inputs and what it did

vars == <<hot, nRows, nCols, colWidths, hidden, widths, ghostColumns, timeouts, runs,
          invalidated, op>>

\* ------------------------------------------------------------------ domains

Max(a, b) == IF a >= b THEN a ELSE b
Min(a, b) == IF a <= b THEN a ELSE b

\* Row counts of the grid: around each multiple of the batch length.
RowCounts == {n \in 0..MaxRows : n % (CALCULATION_STEP + 1) <= 2}
ColCounts == 0..MaxCols

\* The grids: one-column grids of every row count and two-row grids of every
\* column count.
Grids == (RowCounts \X {1}) \cup ({2} \X ColCounts)

\* The grids that are also run while not displayed: the one-column grids of
\* at most two rows.
HiddenGrids == {g \in Grids : g[1] <= 2 /\ g[2] = 1}

\* The host's declared column widths: none, or 50 for column 0 and 0 for
\* column 1.
ColWidthSettings(n) ==
  {[c \in 0..(n - 1) |-> Undefined],
   [c \in 0..(n - 1) |-> IF c = 0 THEN 50 ELSE IF c = 1 THEN 0 ELSE Undefined]}

\* Every index the cache can be written at: -1 (an unrendered viewport) up to
\* the last index a batch or a column range reaches.
Indexes == -1..(Max(MaxRows, MaxCols) - 1)

\* ------------------------------------------------- external collaborators

\* helpers.js rangeEach(from, to, iteratee): the indexes from..to in order.
rangeEach(from, to) ==
  [i \in 1..(IF to >= from THEN to - from + 1 ELSE 0) |-> from + i - 1]

\* this.hot._getColWidthFromSettings(col)
getColWidthFromSettings(col) ==
  IF col \in DOMAIN colWidths THEN colWidths[col] ELSE Undefined

\* JavaScript truthiness of a width: undefined and 0 are falsy.
Truthy(w) == w # Undefined /\ w # 0

\* this.hot.getDataAtCell(row, col) as the width its content needs; a cell
\* outside the grid has no content.
cellWidth(row, col) ==
  IF row \in 0..(nRows - 1) /\ col \in 0..(nCols - 1)
    THEN 50 + 10 * ((row + col) % 2)
    ELSE 50

\* samplesGenerator.generateColumnSamples(col, rowRange): one entry, for col,
\* holding the samples of the rows of rowRange.
generateColumnSamples(col, rFrom, rTo) ==
  <<[col |-> col, rFrom |-> rFrom, rTo |-> rTo]>>

\* The width the ghost table measures for one registered column: that of its
\* widest sample, and 0 for every column while the table is not displayed.
measuredWidth(column) ==
  LET ws == {cellWidth(r, column.col) : r \in column.rFrom..column.rTo}
  IN  IF hidden THEN 0
      ELSE IF ws = {} THEN 50
      ELSE CHOOSE w \in ws : \A v \in ws : v <= w

\* ghostTable.getWidths(callback) with callback (col, width) =>
\* this.widths[col] = width, over the registered columns in order.
RECURSIVE getWidths(_, _)
getWidths(w, columns) ==
  IF columns = <<>> THEN w
  ELSE getWidths([w EXCEPT ![Head(columns).col] = measuredWidth(Head(columns))],
                 Tail(columns))

\* ------------------------------------------------------ calculation engine

\* this.widths[col], undefined where the array holds nothing.
widthAt(w, col) == IF col \in DOMAIN w THEN w[col] ELSE Undefined

\* Line 82 without the look at the cache: every column with no declared width
\* is measured again.
shouldMeasureIgnoringCache(w, col, force) ==
  force \/ ~Truthy(getColWidthFromSettings(col))

\* Line 82 without the look at the host's settings: a declared width does not
\* keep a column from being measured.
shouldMeasureDespiteOverride(w, col, force) ==
  force \/ widthAt(w, col) = Undefined

\* The condition of line 82 under which a column is measured.
shouldMeasure(w, col, force) ==
  force \/ (widthAt(w, col) = Undefined /\ ~Truthy(getColWidthFromSettings(col)))

\* The rangeEach loop of calculateColumnsWidth: the columns added to the
\* ghost table, in order.
RECURSIVE addColumns(_, _, _, _, _)
addColumns(w, cols, rFrom, rTo, force) ==
  IF cols = <<>> THEN <<>>
  ELSE (IF shouldMeasure(w, Head(cols), force)
          THEN generateColumnSamples(Head(cols), rFrom, rTo)
          ELSE <<>>)
       \o addColumns(w, Tail(cols), rFrom, rTo, force)

\* calculateColumnsWidth without ghostTable.clean() after the flush: the
\* registered columns stay in the ghost table.
calculateColumnsWidthNoClean(w, gc, from, to, rFrom, rTo, force) ==
  LET added   == addColumns(w, rangeEach(from, to), rFrom, rTo, force)
      columns == gc \o added
      flush   == Len(columns) > 0
  IN  [widths |-> IF flush THEN getWidths(w, columns) ELSE w,
       ghost  |-> columns,
       call   |-> [called |-> TRUE, from |-> from, to |-> to,
                   rFrom |-> rFrom, rTo |-> rTo, force |-> force,
                   registered |-> added, flushed |-> flush]]

\* calculateColumnsWidth({from, to}, {rFrom, rTo}, force) run on cache w and
\* ghost table columns gc: the cache and ghost table it leaves, and a record
\* of the call.
calculateColumnsWidth(w, gc, from, to, rFrom, rTo, force) ==
  LET added   == addColumns(w, rangeEach(from, to), rFrom, rTo, force)
      columns == gc \o added
      flush   == Len(columns) > 0
  IN  [widths |-> IF flush THEN getWidths(w, columns) ELSE w,
       ghost  |-> IF flush THEN <<>> ELSE columns,
       call   |-> [called |-> TRUE, from |-> from, to |-> to,
                   rFrom |-> rFrom, rTo |-> rTo, force |-> force,
                   registered |-> added, flushed |-> flush]]

\* getColumnWidth without the comparison of line 148: a cached width wins
\* over any default.
getColumnWidthCachedFirst(w, col, defaultWidth) ==
  IF widthAt(w, col) # Undefined THEN widthAt(w, col) ELSE defaultWidth

\* getColumnWidth(col, defaultWidth)
getColumnWidth(w, col, defaultWidth) ==
  IF widthAt(w, col) # Undefined
     /\ widthAt(w, col) > (IF Truthy(defaultWidth) THEN defaultWidth ELSE 0)
    THEN widthAt(w, col)
    ELSE defaultWidth

\* clearCache(): this.widths.length = 0 drops every array index; a property
\* at -1 is not an array index and stays.
clearCache(w) == [c \in DOMAIN w |-> IF c >= 0 THEN Undefined ELSE w[c]]

\* onBeforeChange dropping the whole cache instead of the edited columns.
onBeforeChangeClearingAll(w, changes) == [c \in DOMAIN w |-> Undefined]

\* onBeforeChange without the assignment of line 229.
onBeforeChangeKeeping(w, changes) == w

\* The arrayEach loop of onBeforeChange; changes is the set of the columns
\* (data[1]) of the edits, whose order does not matter to the assignments.
onBeforeChange(w, changes) ==
  [c \in DOMAIN w |-> IF c \in changes THEN Undefined ELSE w[c]]

\* ------------------------------------------------------------- bookkeeping

NoCall == [called |-> FALSE, from |-> 0, to |-> -1, rFrom |-> 0, rTo |-> -1,
           force |-> FALSE, registered |-> <<>>, flushed |-> FALSE]

NoRun == [id |-> 0, current |-> 0, length |-> -1, timer |-> FALSE,
          rFrom |-> 0, rTo |-> -1, batches |-> <<>>, notified |-> 0,
          status |-> "none"]

\* The record of an operation: name, inputs (col, arg, flag, changes), result
\* (ret), the calculateColumnsWidth call it made, the full run it started or
\* continued as that run is left, whether it sent the layout notification,
\* whether it threw; dirty, the invalidated columns in the range of its call
\* when the call began; warmed, whether the operation before it made the same
\* call and registered a column.
Op(name) == [name |-> name, col |-> Undefined, arg |-> Undefined,
             flag |-> FALSE, changes |-> {}, ret |-> Undefined,
             call |-> NoCall, run |-> NoRun, notified |-> FALSE, threw |-> FALSE,
             dirty |-> {}, warmed |-> FALSE]

\* The columns of a call's range.
RangeOf(call) == {c \in Indexes : call.from <= c /\ c <= call.to}

\* The columns a call registered with the ghost table.
Registered(call) == {call.registered[i].col : i \in DOMAIN call.registered}

\* Two calls with identical (colRange, rowRange, force).
SameCall(a, b) ==
  /\ a.called /\ b.called
  /\ a.from = b.from /\ a.to = b.to
  /\ a.rFrom = b.rFrom /\ a.rTo = b.rTo
  /\ a.force = b.force

\* The record o of an operation completed by the call it made.
WithCall(o, call) ==
  [o EXCEPT !.call = call,
            !.dirty = invalidated \cap RangeOf(call),
            !.warmed = SameCall(op.call, call) /\ op.call.registered # <<>>]

\* ---------------------------------------------------------------- initial

Init ==
  /\ hot = TRUE
  /\ \E g \in Grids : /\ nRows = g[1] /\ nCols = g[2]
                      /\ hidden \in IF g \in HiddenGrids THEN BOOLEAN ELSE {FALSE}
  /\ colWidths \in ColWidthSettings(nCols)
  /\ widths = [c \in Indexes |-> Undefined]
  /\ ghostColumns = <<>>
  /\ timeouts = 0
  /\ runs = <<>>
  /\ invalidated = {}
  /\ op = Op("constructor")

\* ------------------------------------------------------- full recalculation

\* Line 111 without the check of this.hot.
hostDestroyedIgnored(h) == FALSE

\* Line 111: the loop gives up when the host is gone.
hostDestroyed(h) == ~h

\* Lines 119 and 133 letting the loop go on for one more batch.
hasNextOneMore(current, length) == current <= length + CALCULATION_STEP + 1

\* Lines 119 and 133: another batch is due while current < length.
hasNext(current, length) == current < length

\* adjustElementsSize called after every batch.
adjustElementsSizeEveryBatch(current, length) == 1

\* Lines 119-126: how often the loop calls adjustElementsSize after a batch
\* that left the cursor at current.
adjustElementsSize(current, length) == IF hasNext(current, length) THEN 0 ELSE 1

\* The closure of one calculateAllColumnsWidth() call is told from those of
\* the other calls by an id: the least one no waiting run has.
freeId ==
  CHOOSE id \in 1..(Len(runs) + 1) : \A i \in DOMAIN runs : runs[i].id # id

\* The cursor of calculateAllColumnsWidth(): current, length, timer and the
\* default row range, with the batches run and notifications sent so far.
newRun == [id |-> freeId, current |-> 0, length |-> nRows - 1, timer |-> FALSE,
           rFrom |-> 0, rTo |-> nRows - 1, batches |-> <<>>, notified |-> 0,
           status |-> "pending"]

\* Lines 116-126: the cursor run after one more batch of loop().
advance(run) ==
  LET to      == Min(run.current + CALCULATION_STEP, run.length)
      current == run.current + CALCULATION_STEP + 1
  IN  [run EXCEPT !.current = current,
                  !.timer = hasNext(current, run.length) \/ run.timer,
                  !.batches = Append(run.batches, <<run.current, to>>),
                  !.notified = run.notified + adjustElementsSize(current, run.length),
                  !.status = IF hasNext(current, run.length)
                               THEN "pending" ELSE "completed"]

\* loop() for the cursor run, the other waiting runs being rest; o is the
\* record of the operation so far.
loop(run, rest, o) ==
  IF hostDestroyed(hot)
    THEN \* cancelAnimationFrame(timer) of a frame that has fired; return
         /\ runs' = rest
         /\ op' = [o EXCEPT !.run = [run EXCEPT !.status = "aborted"]]
         /\ UNCHANGED <<widths, ghostColumns, invalidated>>
    ELSE IF ~hot
    THEN \* this.hot.getDataAtCell of a cleared host: a TypeError
         /\ runs' = rest
         /\ op' = [o EXCEPT !.run = [run EXCEPT !.status = "threw"], !.threw = TRUE]
         /\ UNCHANGED <<widths, ghostColumns, invalidated>>
    ELSE
      LET to      == Min(run.current + CALCULATION_STEP, run.length)
          current == run.current + CALCULATION_STEP + 1
          sent    == adjustElementsSize(current, run.length)
          next    == advance(run)
      IN  /\ \E r \in {calculateColumnsWidth(widths, ghostColumns, run.current,
                                                to, run.rFrom, run.rTo, TRUE)} :
                /\ widths' = r.widths
                /\ ghostColumns' = r.ghost
                /\ invalidated' = invalidated \ RangeOf(r.call)
                /\ op' = WithCall([o EXCEPT !.run = next, !.notified = sent > 0],
                                  r.call)
          /\ IF hasNext(current, run.length)
               THEN \* timer = requestAnimationFrame(loop)
                    runs' = Append(rest, next)
               ELSE runs' = rest

\* ------------------------------------------------------------------ actions

\* The beforeRender hook: onBeforeRender() with the viewport's first and last
\* visible column; forceFlag is the hook's argument, renderCall is
\* this.hot.renderCall, which the host sets only together with the flag.
BeforeRender ==
  \E first \in -1..(nCols - 1), last \in -1..(nCols - 1),
     forceFlag \in BOOLEAN, renderCall \in BOOLEAN :
    /\ hot
    /\ renderCall => forceFlag
    /\ (first = -1 /\ last = -1) \/ (0 <= first /\ first <= last)
    /\ \E r \in {calculateColumnsWidth(widths, ghostColumns, first, last,
                                         0, nRows - 1, renderCall)} :
           /\ widths' = r.widths
           /\ ghostColumns' = r.ghost
           /\ invalidated' = invalidated \ RangeOf(r.call)
           /\ op' = WithCall([Op("beforeRender") EXCEPT !.flag = forceFlag], r.call)
    /\ UNCHANGED <<hot, nRows, nCols, colWidths, hidden, timeouts, runs>>

\* The modifyColWidth hook: getColumnWidth(col, width).
ModifyColWidth ==
  \E col \in 0..(nCols - 1), width \in {Undefined, 0, 55} :
    /\ hot
    /\ op' = [Op("getColumnWidth") EXCEPT !.col = col, !.arg = width,
                                          !.ret = getColumnWidth(widths, col, width)]
    /\ UNCHANGED <<hot, nRows, nCols, colWidths, hidden, widths, ghostColumns, timeouts,
                   runs, invalidated>>

\* The beforeChange hook: onBeforeChange(changes) for edits in the columns
\* changes; the record keeps, as arg, how many of them held a cached width.
BeforeChange ==
  \E changes \in (SUBSET (0..(nCols - 1))) \ {{}} :
    /\ hot
    /\ nRows > 0
    /\ widths' = onBeforeChange(widths, changes)
    /\ invalidated' = invalidated \cup changes
    /\ op' = [Op("beforeChange") EXCEPT
                !.changes = changes,
                !.arg = Cardinality({c \in changes : widths[c] # Undefined})]
    /\ UNCHANGED <<hot, nRows, nCols, colWidths, hidden, ghostColumns, timeouts, runs>>

\* onAfterLoadData without the setTimeout: calculateAllColumnsWidth() is
\* called inside the handler.
AfterLoadDataSynchronous ==
  /\ hot
  /\ timeouts + Len(runs) < MaxRuns
  /\ IF hasNext(newRun.current, newRun.length)
       THEN loop(newRun, runs, Op("afterLoadData"))
       ELSE /\ op' = [Op("afterLoadData") EXCEPT
                        !.run = [newRun EXCEPT !.status = "completed"]]
            /\ UNCHANGED <<widths, ghostColumns, runs, invalidated>>
  /\ UNCHANGED <<hot, nRows, nCols, colWidths, hidden, timeouts>>

\* The afterLoadData hook: onAfterLoadData(); setTimeout(..., 0) leaves a
\* deferred task.
AfterLoadData ==
  /\ hot
  /\ timeouts + Len(runs) < MaxRuns
  /\ timeouts' = timeouts + 1
  /\ op' = Op("afterLoadData")
  /\ UNCHANGED <<hot, nRows, nCols, colWidths, hidden, widths, ghostColumns, runs,
                 invalidated>>

\* The deferred task of onAfterLoadData: calculateAllColumnsWidth() when the
\* host is still there, which runs the first batch at once.
DeferredTask ==
  /\ timeouts > 0
  /\ timeouts' = timeouts - 1
  /\ IF hot
       THEN IF hasNext(newRun.current, newRun.length)
              THEN loop(newRun, runs, Op("deferredTask"))
              ELSE /\ op' = [Op("deferredTask") EXCEPT
                               !.run = [newRun EXCEPT !.status = "completed"]]
                   /\ UNCHANGED <<widths, ghostColumns, runs, invalidated>>
       ELSE /\ op' = Op("deferredTask")
            /\ UNCHANGED <<widths, ghostColumns, runs, invalidated>>
  /\ UNCHANGED <<hot, nRows, nCols, colWidths, hidden>>

\* The frame callback of the i-th waiting run: its loop().
FrameCallbackOf(i) ==
  /\ i \in DOMAIN runs
  /\ loop(runs[i], SubSeq(runs, 1, i - 1) \o SubSeq(runs, i + 1, Len(runs)),
          Op("frameCallback"))
  /\ UNCHANGED <<hot, nRows, nCols, colWidths, hidden, timeouts>>

\* An animation frame: the loop of one waiting run.
FrameCallback == \E i \in 1..MaxRuns : FrameCallbackOf(i)

\* The beforeColumnResize hook: onBeforeColumnResize(col, size, isDblClick).
BeforeColumnResize ==
  \E col \in 0..(nCols - 1), size \in {40}, isDblClick \in BOOLEAN :
    /\ hot
    /\ \E o \in {[Op("beforeColumnResize") EXCEPT !.col = col, !.arg = size,
                                                    !.flag = isDblClick]},
           \* calculateColumnsWidth(void 0, col, true)
           r \in {calculateColumnsWidth(widths, ghostColumns, 0, nCols - 1,
                                        col, col, TRUE)} :
           IF isDblClick
             THEN /\ widths' = r.widths
                  /\ ghostColumns' = r.ghost
                  /\ invalidated' = invalidated \ RangeOf(r.call)
                  /\ op' = WithCall([o EXCEPT !.ret = getColumnWidth(r.widths, col,
                                                                     Undefined)],
                                    r.call)
             ELSE /\ op' = [o EXCEPT !.ret = size]
                  /\ UNCHANGED <<widths, ghostColumns, invalidated>>
    /\ UNCHANGED <<hot, nRows, nCols, colWidths, hidden, timeouts, runs>>

\* clearCache()
ClearCache ==
  /\ hot
  /\ widths' = clearCache(widths)
  /\ op' = Op("clearCache")
  /\ UNCHANGED <<hot, nRows, nCols, colWidths, hidden, ghostColumns, timeouts, runs,
                 invalidated>>

\* A direct call calculateColumnsWidth(colRange, rowRange, force): colRange
\* left out (kind "default"), a number or an inverted range; rowRange left out
\* or a number.
ColRangeArgs ==
  {[kind |-> "default", from |-> 0, to |-> 0]}
  \cup {[kind |-> "number", from |-> c, to |-> c] : c \in 0..(nCols - 1)}
  \cup {[kind |-> "range", from |-> c, to |-> c - 1] : c \in 1..(nCols - 1)}

RowRangeArgs ==
  {[kind |-> "default", from |-> 0, to |-> 0], [kind |-> "number", from |-> 0, to |-> 0]}

\* Lines 74-80: the default and the number-to-range normalisation.
normalize(arg, count) ==
  IF arg.kind = "default" THEN [from |-> 0, to |-> count - 1]
  ELSE [from |-> arg.from, to |-> arg.to]

CalculateColumnsWidth ==
  \E colArg \in ColRangeArgs, rowArg \in RowRangeArgs, force \in BOOLEAN :
    /\ hot
    /\ \E r \in {calculateColumnsWidth(widths, ghostColumns,
                     normalize(colArg, nCols).from, normalize(colArg, nCols).to,
                     normalize(rowArg, nRows).from, normalize(rowArg, nRows).to,
                     force)} :
           /\ widths' = r.widths
           /\ ghostColumns' = r.ghost
           /\ invalidated' = invalidated \ RangeOf(r.call)
           /\ op' = WithCall(Op("calculateColumnsWidth"), r.call)
    /\ UNCHANGED <<hot, nRows, nCols, colWidths, hidden, timeouts, runs>>

\* destroy(): ghostTable.clean(), then the base plugin drops its hooks and
\* this.hot.
Destroy ==
  /\ hot
  /\ ghostColumns' = <<>>
  /\ hot' = FALSE
  /\ op' = Op("destroy")
  /\ UNCHANGED <<nRows, nCols, colWidths, hidden, widths, timeouts, runs, invalidated>>

Next ==
  \/ BeforeRender
  \/ ModifyColWidth
  \/ BeforeChange
  \/ AfterLoadData
  \/ DeferredTask
  \/ FrameCallback
  \/ BeforeColumnResize
  \/ ClearCache
  \/ CalculateColumnsWidth
  \/ Destroy

Spec == Init /\ [][Next]_vars

\* What a DeferredTask step does to timeouts; no other step takes a deferred
\* task away.
DeferredTaskRuns == timeouts > 0 /\ timeouts' = timeouts - 1

\* What a FrameCallbackOf(1) step does to runs: the run that has waited
\* longest leaves the queue, and joins it again at the end when its loop asks
\* for another frame.
FirstFrameFires ==
  /\ runs # <<>>
  /\ runs' = IF hot /\ advance(Head(runs)).status = "pending"
               THEN Append(Tail(runs), advance(Head(runs)))
               ELSE Tail(runs)

\* The grids of one column, which have every row count and so every length
\* of a full run.
InitFair == Init /\ nCols = 1

\* The scheduler runs every deferred task, and the frame callback that has
\* waited longest, in the end.
SpecFair ==
  /\ InitFair /\ [][Next]_vars
  /\ WF_timeouts(DeferredTaskRuns) /\ WF_runs(FirstFrameFires)

\* ------------------------------------------------------------------- claims

\* How many batches of a run were handed column c.
TimesMeasured(run, c) ==
  Cardinality({i \in DOMAIN run.batches :
                 run.batches[i][1] <= c /\ c <= run.batches[i][2]})

\* The host declares a width for column c that line 82 takes as one.
Declared(c) == Truthy(getColWidthFromSettings(c))

\* C1: a full run that is not aborted hands every column of the grid, 0 to
\* nCols - 1, to the calculation engine exactly once over its batches, and no
\* index outside the grid.
C1_BatchCoverage ==
  op.run.status = "completed" =>
    \A c \in Indexes :
      TimesMeasured(op.run, c) = (IF c \in 0..(nCols - 1) THEN 1 ELSE 0)

\* C2 as stated: every full run that is not aborted sends the layout
\* notification exactly once, after its final batch and after no earlier one,
\* also a run of a single batch or of no batch.
C2_NotifiedOnceAlways ==
  /\ op.run.status = "completed" => op.run.notified = 1
  /\ op.run.status = "pending" => op.run.notified = 0 /\ ~op.notified
  /\ \A i \in DOMAIN runs : runs[i].notified = 0

\* C2 amended: a full run that is not aborted and runs at least one batch
\* sends the layout notification exactly once, in the step of its final batch
\* and after no earlier one; a run that runs no batch sends none.
C2_NotifiedOncePerBatchedRun ==
  /\ op.run.status = "completed" =>
       /\ op.run.notified = (IF Len(op.run.batches) > 0 THEN 1 ELSE 0)
       /\ op.notified <=> Len(op.run.batches) > 0
       /\ Len(op.run.batches) = 0 <=> ~(0 < op.run.length)
  /\ op.run.status # "completed" => ~op.notified
  /\ op.run.status = "pending" => op.run.notified = 0
  /\ \A i \in DOMAIN runs : runs[i].notified = 0

\* A run of two batches has completed and sent its one notification.
C2_Witness ==
  /\ op.run.status = "completed"
  /\ Len(op.run.batches) = 2
  /\ op.run.notified = 1
  /\ op.notified

\* C3: once the host is gone, a frame callback or a deferred task runs no
\* batch, sends no notification, leaves the width cache as it is and throws
\* nothing.
C3_TeardownSafety ==
  [][~hot =>
       /\ widths' = widths
       /\ ~op'.call.called
       /\ ~op'.notified
       /\ ~op'.threw]_vars

\* A run was given up between its first and its second batch, the cache
\* holding the widths of the first.
C3_Witness ==
  /\ ~hot
  /\ op.name = "frameCallback"
  /\ op.run.status = "aborted"
  /\ Len(op.run.batches) = 1
  /\ \E c \in Indexes : widths[c] # Undefined

\* C4 as stated: a call whose range holds a column edited since the last call
\* that held it registers that column, whatever force is and whether or not
\* the host declares a width for it.
C4_EditedColumnRemeasured ==
  [][op'.call.called =>
       \A c \in invalidated \cap RangeOf(op'.call) :
         c \in Registered(op'.call)]_vars

\* C4 amended: such a call registers the edited column exactly when force is
\* true or the host declares no width for the column; with force = false an
\* edited column without a declared width is remeasured.
C4_EditedColumnRemeasuredUnlessDeclared ==
  [][op'.call.called =>
       \A c \in invalidated \cap RangeOf(op'.call) :
         c \in Registered(op'.call) <=> (op'.call.force \/ ~Declared(c))]_vars

\* A call with force = false has registered a column that was edited before.
C4_Witness ==
  /\ op.call.called
  /\ ~op.call.force
  /\ \E c \in op.dirty : c \in Registered(op.call) /\ widths[c] # Undefined

\* C5: getColumnWidth(col, d) returns the cached width when the cache holds one
\* greater than d (an absent d and d = 0 counting as 0) and d otherwise, never
\* less than d, and leaves the cache as it is.
C5_GetColumnWidth ==
  [][op'.name = "getColumnWidth" =>
       LET d      == op'.arg
           cached == widths[op'.col]
           floor  == IF d = Undefined \/ d = 0 THEN 0 ELSE d
       IN  /\ op'.ret = (IF cached # Undefined /\ cached > floor THEN cached ELSE d)
           /\ d # Undefined => op'.ret >= d
           /\ widths' = widths]_vars

\* getColumnWidth has returned a default of 55 for a column cached at 50.
C5_Witness ==
  /\ op.name = "getColumnWidth"
  /\ widths[op.col] = 50
  /\ op.arg = 55
  /\ op.ret = 55

\* C6: a call with force = false that follows at once a call with the same
\* (colRange, rowRange, force) leaves the cache as the first call left it,
\* registers no column and does not flush.
C6_Idempotence ==
  [][(SameCall(op.call, op'.call) /\ ~op'.call.force) =>
       /\ widths' = widths
       /\ op'.call.registered = <<>>
       /\ ~op'.call.flushed]_vars

\* The second of two identical calls with force = false, the first of which
\* registered a column.
C6_Witness ==
  /\ op.call.called
  /\ ~op.call.force
  /\ op.warmed

\* C7: at most one full run has a batch still to come.
C7_SingleRunInFlight == Len(runs) <= 1

\* C8: a cached width changes only by a before-change edit of its column, by
\* clearCache, or by a call with force = true whose range holds the column; a
\* call with force = false, getColumnWidth, a before-column-resize without
\* double click and after-data-load change none.
C8_CachedWidthPersists ==
  [][\A c \in Indexes :
       (widths[c] # Undefined /\ widths'[c] # widths[c]) =>
         /\ \/ op'.name = "beforeChange" /\ c \in op'.changes
            \/ op'.name = "clearCache"
            \/ op'.call.called /\ op'.call.force /\ c \in RangeOf(op'.call)
         /\ ~(op'.call.called /\ ~op'.call.force)
         /\ op'.name # "getColumnWidth"
         /\ op'.name # "afterLoadData"
         /\ ~(op'.name = "beforeColumnResize" /\ ~op'.flag)]_vars

\* A call with force = false has flushed new widths and left a column of its
\* range, cached before and without a declared width, as it was.
C8_Witness ==
  /\ op.call.called
  /\ ~op.call.force
  /\ op.call.flushed
  /\ \E c \in RangeOf(op.call) :
       c \notin Registered(op.call) /\ widths[c] # Undefined /\ ~Declared(c)

\* C9 as stated: a column of the range is skipped exactly when force is false,
\* the column has a cached width and the host declares no width for it.
C9_SkipRuleAsStated ==
  [][op'.call.called =>
       \A c \in RangeOf(op'.call) :
         c \notin Registered(op'.call) <=>
           (~op'.call.force /\ widths[c] # Undefined /\ ~Declared(c))]_vars

\* C9 amended: a column of the range is skipped exactly when force is false
\* and the column has a cached width or the host declares a width for it; in
\* every other case it is registered, with the samples of the call's row range.
C9_SkipRule ==
  [][op'.call.called =>
       /\ \A c \in RangeOf(op'.call) :
            c \notin Registered(op'.call) <=>
              (~op'.call.force /\ (widths[c] # Undefined \/ Declared(c)))
       /\ \A i \in DOMAIN op'.call.registered :
            /\ op'.call.registered[i].col \in RangeOf(op'.call)
            /\ op'.call.registered[i].rFrom = op'.call.rFrom
            /\ op'.call.registered[i].rTo = op'.call.rTo]_vars

\* A call with force = false has skipped a column that has no cached width
\* and a declared one, and registered another column.
C9_Witness ==
  /\ op.call.called
  /\ ~op.call.force
  /\ op.call.registered # <<>>
  /\ \E c \in RangeOf(op.call) :
       Declared(c) /\ widths[c] = Undefined /\ c \notin Registered(op.call)

\* C10: a before-column-resize with double click registers the one column col,
\* with the samples of all rows, and changes the cache entry of no other
\* column.
C10_ResizeOneColumnAllRows ==
  [][(op'.name = "beforeColumnResize" /\ op'.flag) =>
       /\ op'.call.called /\ op'.call.force
       /\ Registered(op'.call) = {op'.col}
       /\ op'.call.rFrom = 0 /\ op'.call.rTo = nRows - 1
       /\ \A c \in Indexes \ {op'.col} : widths'[c] = widths[c]]_vars

\* C11: a before-render whose viewport reports -1 for the first and the last
\* visible column registers no column, does not flush and leaves the cache as
\* it is, whatever the force flag.
C11_UnrenderedViewportIsEmpty ==
  [][(op'.name = "beforeRender" /\ op'.call.from = -1 /\ op'.call.to = -1) =>
       /\ op'.call.registered = <<>>
       /\ ~op'.call.flushed
       /\ widths' = widths]_vars

\* C12: after clearCache, and after an after-data-load event has been handled,
\* the cache holds no width for any column of the grid.
C12_CacheClearedOnReload ==
  (op.name = "clearCache" \/ op.name = "afterLoadData") =>
    \A c \in 0..(nCols - 1) : widths[c] = Undefined

\* C13: the after-data-load handler runs no batch: it leaves the cache, the
\* ghost table and the waiting runs as they are and adds one deferred task;
\* each deferred task starts one run when the host is still there, and the
\* first batch of a run is made by a deferred task, over [0, min(19, length)].
C13_DeferredFullRun ==
  [][/\ op'.name = "afterLoadData" =>
          /\ widths' = widths
          /\ ghostColumns' = ghostColumns
          /\ runs' = runs
          /\ ~op'.call.called
          /\ op'.run.status = "none"
          /\ timeouts' = timeouts + 1
     /\ op'.name = "deferredTask" =>
          /\ timeouts' = timeouts - 1
          /\ hot => op'.run.status \in {"pending", "completed"}
          /\ op'.call.called =>
               op'.run.batches =
                 <<(<<0, Min(CALCULATION_STEP, op'.run.length)>>)>>
     /\ (op'.call.called /\ Len(op'.run.batches) = 1) =>
          op'.name = "deferredTask"]_vars

\* A deferred task has run the first batch of a run that has more to do.
C13_Witness ==
  /\ op.name = "deferredTask"
  /\ op.call.called
  /\ Len(op.run.batches) = 1
  /\ op.run.status = "pending"
  /\ widths[0] # Undefined

\* C14: a before-render calls calculateColumnsWidth with the visible column
\* range, all rows and the force flag the hook was given: with the flag every
\* visible column is registered, without it no cached visible column is, and
\* the cache outside the visible range stays as it is.
C14_BeforeRenderUsesForceFlag ==
  [][op'.name = "beforeRender" =>
       /\ op'.call.called
       /\ op'.call.rFrom = 0 /\ op'.call.rTo = nRows - 1
       /\ op'.call.force = op'.flag
       /\ op'.flag => \A c \in RangeOf(op'.call) : c \in Registered(op'.call)
       /\ ~op'.flag => \A c \in RangeOf(op'.call) :
                         widths[c] # Undefined => c \notin Registered(op'.call)
       /\ \A c \in Indexes \ RangeOf(op'.call) : widths'[c] = widths[c]]_vars

\* The batches of a run with last index length, as C15 states them.
BatchesOf(length) ==
  [k \in 1..((length \div (CALCULATION_STEP + 1)) + 1) |->
     <<(CALCULATION_STEP + 1) * (k - 1),
       Min((CALCULATION_STEP + 1) * (k - 1) + CALCULATION_STEP, length)>>]

\* C15: a run that has completed with last index length >= 0 ran exactly the
\* batches [20k, min(20k + 19, length)], k = 0 .. length \div 20, and they
\* cover every index of 0..length.
C15_BatchesExact ==
  (op.run.status = "completed" /\ op.run.length >= 0) =>
    /\ op.run.batches = BatchesOf(op.run.length)
    /\ \A c \in 0..op.run.length : TimesMeasured(op.run, c) = 1

\* C16: a calculateColumnsWidth call flushes exactly when it registered a
\* column; the flush writes the measured width of every registered column
\* into the cache and nothing else, and empties the ghost table; a call that
\* registered nothing leaves the cache as it is; between operations the ghost
\* table holds no column.
C16_FlushOncePerCall ==
  [][/\ ghostColumns = <<>> /\ ghostColumns' = <<>>
     /\ op'.call.called =>
          /\ op'.call.flushed <=> op'.call.registered # <<>>
          /\ \A i \in DOMAIN op'.call.registered :
               widths'[op'.call.registered[i].col] =
                 measuredWidth(op'.call.registered[i])
          /\ \A c \in Indexes \ Registered(op'.call) : widths'[c] = widths[c]
     /\ ~op'.call.called => \A c \in Indexes :
          widths'[c] # widths[c] => widths'[c] = Undefined]_vars

\* A call has registered two columns and flushed them into the cache, next
\* to a cached column it did not register.
C16_Witness ==
  /\ op.call.called
  /\ op.call.flushed
  /\ Len(op.call.registered) >= 2
  /\ ghostColumns = <<>>
  /\ \E c \in Indexes \ Registered(op.call) : widths[c] # Undefined

\* C17: a before-change makes the cache entry of every edited column absent
\* and leaves every other entry as it is; it registers nothing with the ghost
\* table, calls no calculateColumnsWidth and starts no run.
C17_BeforeChangeFrame ==
  [][op'.name = "beforeChange" =>
       /\ \A c \in Indexes :
            widths'[c] = IF c \in op'.changes THEN Undefined ELSE widths[c]
       /\ ghostColumns' = ghostColumns
       /\ ~op'.call.called
       /\ op'.run.status = "none"
       /\ runs' = runs /\ timeouts' = timeouts]_vars

\* An edit has dropped the cached width of its column while another column
\* keeps its cached width.
C17_Witness ==
  /\ op.name = "beforeChange"
  /\ op.arg >= 1
  /\ \E c \in 0..(nCols - 1) : c \notin op.changes /\ widths[c] # Undefined

\* C18: every index at which the cache holds a width is a column of the grid.
C18_CachedIndexesInGrid ==
  \A c \in Indexes : widths[c] # Undefined => c \in 0..(nCols - 1)

RunWaiting(id) == \E i \in DOMAIN runs : runs[i].id = id

\* The run of id has ended in the last operation, completed or aborted.
RunEnded(id) ==
  op.run.id = id /\ op.run.status \in {"completed", "aborted"}

\* C19: a waiting run has made at most length \div 20 + 1 batches; a run that
\* has ended waits for no frame, and has sent its one notification when it
\* completed after a batch; and every waiting run ends, completed or aborted.
C19_RunTerminates ==
  /\ [](\A i \in DOMAIN runs :
          /\ runs[i].status = "pending"
          /\ Len(runs[i].batches) <=
               (runs[i].length \div (CALCULATION_STEP + 1)) + 1)
  /\ [](\A id \in 1..MaxRuns : RunEnded(id) =>
          /\ ~RunWaiting(id)
          /\ Len(op.run.batches) <=
               (op.run.length \div (CALCULATION_STEP + 1)) + 1
          /\ (op.run.status = "completed" /\ op.run.batches # <<>>) =>
               op.run.notified = 1)
  /\ \A id \in 1..MaxRuns : RunWaiting(id) ~> RunEnded(id)

\* A run has completed in a frame callback with its last batch while another
\* run is still waiting.
C19_Witness ==
  /\ op.name = "frameCallback"
  /\ RunEnded(op.run.id)
  /\ op.run.status = "completed"
  /\ Len(op.run.batches) = (op.run.length \div (CALCULATION_STEP + 1)) + 1
  /\ runs # <<>>

====
